---------------------------- MODULE Spec2Model ----------------------------
(***************************************************************************)
(* A model of share/middleware: the UserAgent facade (lib/useragent.js)    *)
(* and the Middleware dispatcher, filter chains and stream wrapper that    *)
(* follow it in the same source file.                                      *)
(*                                                                         *)
(* One JavaScript turn (a public call, a process.nextTick callback, the    *)
(* completion callback of a middleware, of the backend or of a filter) is  *)
(* one action: everything the turn runs synchronously is part of it.       *)
(***************************************************************************)
EXTENDS Integers, Sequences, FiniteSets, TLC

\* ---------------------------------------------------------------- bounds
\* Operations of the agent that may be in flight at the same time.
MaxCalls == 1
\* Registrations made in one run: accepted calls of Middleware.use(),
\* Middleware.filter() and Middleware.filterOps() together.
MaxReg == 2

\* Filters in a chain drawn for a filter run or a wrapped stream.
MaxChain == 3
\* Records a wrapped stream's source emits.
MaxEvents == 3
\* Calls of destroy() on one wrapped stream.
MaxDestroy == 2
\* Triggers in flight at the same time where concurrent chains are studied.
MaxConcurrent == 2
\* Items of one 'diff' event of a live query.
MaxDiffs == 2
\* 'diff' events a live query's emitter emits.
MaxBatches == 2
\* Doc filters registered when a live query is studied.
MaxDocFilters == 2

\* ---------------------------------------------------------------- values
\* JavaScript's null / undefined, as an error value or a missing field.
None == "null"

\* Errors a callback-taking middleware may pass to its next().
MwErrors == {"denied", "forbidden"}
\* The error an opaque backend may report.
BackendErrors == {"backend failed"}

DocNames == {"mario", "peaches"}

\* Request maps of bulkFetch / bulkSubscribe: collection -> list of names,
\* kept as a set of entries (one per collection).
RequestMaps ==
  { {},
    {[cName |-> "people", docs |-> <<>>]},
    {[cName |-> "people", docs |-> <<"mario">>]},
    {[cName |-> "people", docs |-> <<>>], [cName |-> "pets", docs |-> <<"peaches">>]} }

\* The public operations of UserAgent and the action each triggers first.
Ops ==
  {"connect", "fetch", "bulkFetch", "getOps", "subscribe", "bulkSubscribe",
   "fetchAndSubscribe", "submit", "queryFetch", "query"}

ActionOf(op) ==
  CASE op = "connect" -> "connect"
    [] op = "fetch" -> "fetch"
    [] op = "bulkFetch" -> "bulk fetch"
    [] op = "getOps" -> "get ops"
    [] op = "subscribe" -> "subscribe"
    [] op = "bulkSubscribe" -> "bulk subscribe"
    [] op = "fetchAndSubscribe" -> "fetch"
    [] op = "submit" -> "submit"
    [] op = "queryFetch" -> "query"
    [] op = "query" -> "query"

\* Keys of Middleware.methods that the model registers under ('' is the
\* list that fires on every action).
MethodKeys == {"", "bulk fetch", "submit"}
\* What use() is called with: the keys above and the two rejected names.
UseActions == MethodKeys \cup {"fetch", "subscribe"}

\* Data handed around: a snapshot (with the greeting a filter may set), a
\* set of documents (bulk and query results), a stream, or null.
NullData == [kind |-> "null", greeting |-> "", docs |-> {}]
Snapshot == [kind |-> "snapshot", greeting |-> "", docs |-> {}]
EmptyMap == [kind |-> "map", greeting |-> "", docs |-> {}]
DocSet(kind, ds) == [kind |-> kind, greeting |-> "", docs |-> ds]

\* A request: collection, docName, the request map of the bulk operations,
\* the payload of the others (start/end, version, opData, query) and the
\* options of a query. payload and options are None where the operation
\* has none, else they tell who wrote the value last.
NoReq ==
  [collection |-> None, docName |-> None, requests |-> {}, payload |-> None,
   options |-> None, snapshot |-> None]
NoResult == [n |-> 0, err |-> None, data |-> NullData]
\* What the callback of the current trigger received, and how often.
NoCb == [n |-> 0, err |-> None, backend |-> FALSE, req |-> NoReq]

IdleCall ==
  [op |-> "none", pc |-> "idle", stage |-> 0, action |-> "none",
   args |-> NoReq, req |-> NoReq, chain |-> <<>>, ran |-> <<>>, nreg |-> 0,
   sig |-> None, sigAt |-> 0, adv |-> 0, cb |-> NoCb,
   bcalls |-> 0, bargs |-> NoReq, bres |-> NoResult, fseen |-> <<>>,
   fdoc |-> None, fthis |-> None, trail |-> <<>>, cbs |-> <<>>,
   data |-> NullData,
   fpos |-> 0, fran |-> <<>>, work |-> 0, cbLive |-> FALSE, pending |-> {},
   runs |-> <<>>,
   result |-> NoResult]

VARIABLES
  connectCalled,  \* UserAgent._connectCalled
  methods,        \* Middleware.methods: key -> list of [id, arity]
  docFilters,     \* Middleware.docFilters
  opFilters,      \* Middleware.opFilters
  useError,       \* whether the last use() threw
  lastUse,        \* the action the last use() was called with
  calls,          \* the operations in flight, one record per slot
  ticks,          \* process.nextTick queue: slots whose runMethod is scheduled
  lastOp,         \* the operation of the most recent public call
  thrown,         \* what that call threw synchronously (None: it returned)
  connectOk       \* history: some connect's callback was handed no error

agentVars ==
  <<connectCalled, methods, docFilters, opFilters, useError, lastUse, calls,
    ticks,
    lastOp, thrown, connectOk>>

VARIABLES
  srcToEmit,      \* records the source of the wrapped stream will still emit
  srcEmitted,     \* records it has emitted
  srcDestroys,    \* how often the source's destroy() was invoked
  wrapper         \* the Transform wrapOpStream returns

streamVars == <<srcToEmit, srcEmitted, srcDestroys, wrapper>>

VARIABLES
  emitter,        \* the emitter backend.query returned
  wrapped         \* the EventEmitter query() hands to its caller

queryVars == <<emitter, wrapped>>

vars == <<agentVars, streamVars, queryVars>>

Slots == 1..MaxCalls

Range(s) == {s[i] : i \in 1..Len(s)}

\* How many middleware entries the registry holds.
RECURSIVE SumLen(_, _)
SumLen(f, keys) ==
  IF keys = {} THEN 0
  ELSE LET k == CHOOSE x \in keys : TRUE
       IN Len(f[k]) + SumLen(f, keys \ {k})

NumRegistered == SumLen(methods, MethodKeys)

\* Whether the run may register one more middleware or filter.
MayRegister == NumRegistered + Len(docFilters) + Len(opFilters) < MaxReg


\* ------------------------------------------------------------ Middleware
\* Middleware(backend): an empty all-actions list, no filters.
MiddlewareInit ==
  /\ methods = [k \in MethodKeys |-> <<>>]
  /\ docFilters = <<>>
  /\ opFilters = <<>>
  /\ useError = FALSE
  /\ lastUse = "none"

\* Mutant: only 'fetch' is rejected.
useRejectsFetchOnly(action) == action = "fetch"

\* use() rejects the two single-document actions.
useRejects(action) == action = "fetch" \/ action = "subscribe"

\* Middleware.use(action, middleware): append to the list of the action.
\* An entry is the function's registration number and its arity (1: the
\* chain advances by itself; 2: the function calls next).
use(action, arity) ==
  /\ MayRegister
  /\ IF useRejects(action)
     THEN /\ useError' = TRUE
          /\ lastUse' = action
          /\ UNCHANGED methods
     ELSE /\ useError' = FALSE
          /\ lastUse' = action
          /\ methods' =
               [methods EXCEPT
                  ![action] = Append(@, [id |-> NumRegistered + 1, arity |-> arity])]
  /\ UNCHANGED <<connectCalled, docFilters, opFilters, calls, ticks, lastOp, thrown, connectOk>>
  /\ UNCHANGED <<streamVars, queryVars>>

\* The doc filters of the model: the example of the UserAgent doc comment
\* ("mario") and a filter that lets every document pass.
DocFilterKinds == {"mario", "pass"}
\* An op filter that rejects what it is shown.
OpFilterKinds == {"veto"}

\* Middleware.filter(fn)
filter(fn) ==
  /\ MayRegister
  /\ docFilters' = Append(docFilters, fn)
  /\ UNCHANGED <<connectCalled, methods, opFilters, useError, lastUse, calls, ticks, lastOp, thrown, connectOk>>
  /\ UNCHANGED <<streamVars, queryVars>>

\* Middleware.filterOps(fn)
filterOps(fn) ==
  /\ MayRegister
  /\ opFilters' = Append(opFilters, fn)
  /\ UNCHANGED <<connectCalled, methods, docFilters, useError, lastUse, calls, ticks, lastOp, thrown, connectOk>>
  /\ UNCHANGED <<streamVars, queryVars>>

\* Mutant: the all-actions list is put first.
ChainForGlobalFirst(m, action) ==
  m[""] \o (IF action \in MethodKeys THEN m[action] ELSE <<>>)

\* The list runMethod iterates: a copy of the action's list followed by the
\* all-actions list.
ChainFor(m, action) ==
  (IF action \in MethodKeys THEN m[action] ELSE <<>>) \o m[""]

RECURSIVE next(_, _)

\* Mutant: the chain is run inside the call instead of on the next tick.
Middleware_triggerSync(call, action, req) ==
  next([call EXCEPT
          !.pc = "run", !.stage = @ + 1, !.action = action, !.req = req,
          !.chain = ChainFor(methods, action), !.ran = <<>>,
          !.nreg = NumRegistered, !.sig = None, !.sigAt = 0, !.adv = 0,
          !.cb = NoCb, !.trail = Append(@, action)],
       connectCalled)

\* Middleware.trigger: fill in the request and schedule runMethod on the
\* next tick. Nothing of the chain runs here. trail notes the steps the
\* operation has taken: its triggers, its backend call, its filter pass,
\* the wrapping of its stream.
Middleware_trigger(call, action, req) ==
  [call EXCEPT
     !.pc = "tick", !.stage = @ + 1, !.action = action, !.req = req,
     !.chain = <<>>, !.ran = <<>>, !.nreg = 0, !.sig = None, !.sigAt = 0,
     !.adv = 0, !.cb = NoCb, !.trail = Append(@, action)]

\* Mutant: the comparison with 'connect' is inverted.
UsageFaultInverted(action, connected) == action = "connect" /\ ~connected

\* The check at the head of UserAgent._trigger.
UsageFault(action, connected) == action # "connect" /\ ~connected

\* UserAgent._trigger: throw before connect, otherwise Middleware.trigger.
UserAgent_trigger(call, action, req, connected) ==
  IF UsageFault(action, connected)
  THEN [call EXCEPT !.pc = "fault"]
  ELSE Middleware_trigger(call, action, req)


\* ------------------------------------------------------- filter functions
\* What a registered filter answers for a document or an operation list:
\* the error it passes to next, or None.
FilterOutcome(kind, docName) ==
  CASE kind = "mario" -> IF docName = "mario" THEN None ELSE "Document not found!"
    [] kind = "veto" -> "Not on my watch!"
    [] OTHER -> None

\* What it does to the data before it answers.
FilterMutate(kind, docName, data) ==
  IF kind = "mario" /\ docName = "mario"
  THEN [data EXCEPT !.greeting = "It'se me: Mario"]
  ELSE data

\* Mutant: the data is handed on together with the error.
runFiltersResultKeepsData(error, data) ==
  [err |-> error, data |-> data]

\* The callback _runFilters hands to async.eachSeries.
runFiltersResult(error, data) ==
  [err |-> error, data |-> IF error # None THEN NullData ELSE data]

\* One whole run of a filter list on one document, as bulk and query
\* fan-out use it: the first error, or None.
RECURSIVE RunAll(_, _)
RunAll(filters, docName) ==
  IF filters = <<>> THEN None
  ELSE LET e == FilterOutcome(Head(filters), docName)
       IN IF e # None THEN e ELSE RunAll(Tail(filters), docName)

\* -------------------------------------------------------------- UserAgent
\* The caller's callback is invoked.
Deliver(call, err, data) ==
  [call EXCEPT !.pc = "done",
               !.result = [n |-> @.n + 1, err |-> err, data |-> data]]

\* A backend operation is invoked with the given arguments.
CallBackend(call, args) ==
  [call EXCEPT !.pc = "backend", !.bcalls = @ + 1, !.bargs = args,
               !.trail = Append(@, "backend")]

\* Mutant: one empty list is enough.
bulkFetchRequestsSomeEmpty(requests) ==
  \E r \in requests : Len(r.docs) = 0

bulkFetchRequestsEmpty(requests) ==
  \A r \in requests : Len(r.docs) = 0

\* Which filter list an operation's filter pass reads.
FiltersOf(call, df, of) == IF call.op = "getOps" THEN of ELSE df

\* The docName an operation's filter pass is called with: getOps never
\* reassigns its arguments, the others read the request.
FilterDocName(call) ==
  IF call.op = "getOps" THEN call.args.docName ELSE call.req.docName

\* Mutant: the stream is wrapped and handed over whatever the filters said.
FiltersDoneWrapsAlways(call, r) ==
  IF call.op = "fetchAndSubscribe"
  THEN Deliver([call EXCEPT !.trail = Append(@, "wrap")], r.err,
               [r.data EXCEPT !.kind = "snapshot+stream"])
  ELSE Deliver(call, r.err, r.data)

\* The callback of _runFilters in each operation: fetch and getOps hand the
\* result to the caller, fetchAndSubscribe wraps the stream first.
FiltersDone(call, r) ==
  IF call.op = "fetchAndSubscribe" /\ r.err = None
  THEN Deliver([call EXCEPT !.trail = Append(@, "wrap")], None,
               [r.data EXCEPT !.kind = "snapshot+stream"])
  ELSE Deliver(call, r.err, r.data)

\* What a filter finds as its this: _runFilters calls filter.call(self, ...)
\* with self its own this, the Middleware whose runDocFilters or
\* runOpFilters was called.
FilterThis == "the Middleware"

\* _runFilters -> async.eachSeries: with no filter the callback runs at
\* once, otherwise the first filter is invoked.
\* fdoc notes the docName the run was called with.
runFilters(call, filters, data) ==
  LET c0 == [call EXCEPT !.fdoc = FilterDocName(call),
                         !.trail = Append(@, "filters")]
  IN IF filters = <<>>
     THEN FiltersDone(c0, runFiltersResult(None, data))
     ELSE [c0 EXCEPT !.pc = "filter", !.fpos = 1, !.fran = <<1>>, !.data = data,
                     !.fthis = FilterThis]

\* runBulkDocFilters and filterQueryResults: one filter run per document,
\* started together. work counts as in runBulkDocFilters (one extra unit
\* released after the loop); with no filter every run answers at once.
FanOutDone(call, err, data) ==
  IF err # None THEN Deliver(call, err, NullData)
  ELSE IF call.op = "query"
  THEN Deliver(call, None, [data EXCEPT !.kind = "wrapped emitter"])
  ELSE Deliver(call, None, data)

fanOut(call, filters, data) ==
  IF filters = <<>> \/ data.docs = {}
  THEN FanOutDone(call, None, data)
  ELSE [call EXCEPT !.pc = "fanout", !.data = data, !.pending = data.docs,
                    !.work = Cardinality(data.docs), !.cbLive = TRUE,
                    !.fthis = FilterThis]

\* Mutant: the error is reported but the operation goes on to the backend.
VetoedNoReturn(call, err) ==
  [CallBackend(call, call.req) EXCEPT
     !.result = [n |-> @.n + 1, err |-> err, data |-> NullData]]

\* The callback each operation passes to _trigger, when it is handed an
\* error: the error goes to the caller (submit's 'after submit' callback
\* passes the version and the ops along).
Vetoed(call, err) ==
  IF call.op = "submit" /\ call.stage = 2
  THEN Deliver(call, err, call.data)
  ELSE Deliver(call, err, NullData)

\* The arguments each operation hands to the backend: getOps passes the
\* start and end it was called with, queryFetch and query the options they
\* were called with; everything else is read from the request.
BackendArgs(call, request) ==
  CASE call.op = "getOps" -> [request EXCEPT !.payload = call.args.payload]
    [] call.op \in {"queryFetch", "query"} ->
         [request EXCEPT !.options = call.args.options]
    [] OTHER -> request

\* The same callback handed (null, backend, request): the operation goes on
\* with what it reads from the request.
Proceed(call, request, connected) ==
  CASE call.op = "connect" -> Deliver(call, None, NullData)
    [] call.op = "bulkFetch" ->
         IF bulkFetchRequestsEmpty(request.requests)
         THEN Deliver(call, None, EmptyMap)
         ELSE CallBackend(call, BackendArgs(call, request))
    [] call.op = "fetchAndSubscribe" /\ call.stage = 1 ->
         UserAgent_trigger(call, "subscribe", request, connected)
    [] call.op = "submit" /\ call.stage = 2 ->
         Deliver(call, None, call.data)
    [] OTHER -> CallBackend(call, BackendArgs(call, request))

\* The trigger's callback is invoked with (err, backend, request). cbs
\* notes what the callbacks of the operation's triggers were handed as err.
Triggered(call, err, backend, request, connected) ==
  LET c1 == [call EXCEPT !.cb = [n |-> @.n + 1, err |-> err,
                                 backend |-> backend, req |-> request],
                         !.cbs = Append(@, err)]
  IN IF err # None THEN Vetoed(c1, err) ELSE Proceed(c1, request, connected)

\* What the backend may answer to each operation.
BackendData(op) ==
  CASE op = "fetch" -> {NullData, Snapshot}
    [] op = "fetchAndSubscribe" -> {Snapshot}
    [] op = "bulkFetch" -> {DocSet("map", ds) : ds \in SUBSET DocNames}
    [] op = "getOps" -> {DocSet("ops", {})}
    [] op = "subscribe" -> {DocSet("stream", {})}
    [] op = "bulkSubscribe" -> {DocSet("streams", {})}
    [] op = "submit" -> {DocSet("version", {})}
    [] op = "queryFetch" -> {NullData} \cup {DocSet("results", ds) : ds \in SUBSET DocNames}
    [] op = "query" -> {DocSet("emitter", ds) : ds \in SUBSET DocNames}
    [] OTHER -> {}

\* The callback each operation passes to the backend.
BackendReplied(call, err, data, df, of, connected) ==
  IF err # None THEN Deliver(call, err, NullData)
  ELSE
    CASE call.op = "fetch" ->
           IF data.kind # "null"
           THEN runFilters(call, df, data)
           ELSE Deliver(call, None, data)
      [] call.op = "fetchAndSubscribe" -> runFilters(call, df, data)
      [] call.op = "getOps" -> runFilters(call, of, data)
      [] call.op = "bulkFetch" -> fanOut(call, df, data)
      [] call.op = "queryFetch" ->
           IF data.kind # "null"
           THEN fanOut(call, df, data)
           ELSE Deliver(call, None, data)
      [] call.op = "query" -> fanOut(call, df, data)
      [] call.op = "subscribe" -> Deliver(call, None, [data EXCEPT !.kind = "wrapped stream"])
      [] call.op = "bulkSubscribe" -> Deliver(call, None, [data EXCEPT !.kind = "wrapped streams"])
      [] call.op = "submit" ->
           UserAgent_trigger([call EXCEPT !.data = data], "after submit",
                             [call.req EXCEPT !.snapshot = "backend's"], connected)
      [] OTHER -> call


\* ------------------------------------------------------------- dispatcher
\* Mutant: the chain goes on without waiting for a middleware of arity 2.
nextNeverWaits(call, connected) ==
  IF call.chain = <<>> THEN Triggered(call, None, TRUE, call.req, connected)
  ELSE next([call EXCEPT !.chain = Tail(@), !.ran = Append(@, Head(call.chain).id)],
            connected)

\* runMethod's next(): run the middleware at the head of the copied list;
\* one of arity 1 advances at once, one of arity 2 is waited for; with the
\* list used up the trigger's callback gets (null, backend, request).
next(call, connected) ==
  IF call.chain = <<>> THEN Triggered(call, None, TRUE, call.req, connected)
  ELSE LET mw == Head(call.chain)
           c1 == [call EXCEPT !.chain = Tail(@), !.ran = Append(@, mw.id)]
       IN IF mw.arity = 1 THEN next(c1, connected) ELSE [c1 EXCEPT !.pc = "mw"]

\* What a middleware may leave in the request it was handed: it rewrites
\* the document name, the request map, the payload or the options, or
\* nothing.
Rewrites(call) ==
  {call.req}
  \cup (IF call.req.docName # None
        THEN {[call.req EXCEPT !.docName = d] : d \in DocNames} ELSE {})
  \cup (IF call.op \in {"bulkFetch", "bulkSubscribe"}
        THEN {[call.req EXCEPT !.requests = r] : r \in RequestMaps} ELSE {})
  \cup (IF call.req.payload # None
        THEN {[call.req EXCEPT !.payload = "rewritten"]} ELSE {})
  \cup (IF call.req.options # None
        THEN {[call.req EXCEPT !.options = "rewritten"]} ELSE {})

\* Mutant: the flag follows the outcome of the last connect.
connectDoneAssignsOutcome(new, connected) ==
  IF new.op = "connect" /\ new.pc = "done" THEN new.result.err = None ELSE connected

\* connect's callback: the flag is set when the trigger reported no error.
connectDone(new, connected) ==
  connected \/ (new.op = "connect" /\ new.pc = "done" /\ new.result.err = None)

\* Mutant: runMethod shifts the registered lists themselves, not a copy.
TurnShiftsRegistry(c, new, rest) ==
  /\ calls' = [calls EXCEPT ![c] = new]
  /\ ticks' = IF new.pc = "tick" THEN Append(rest, c) ELSE rest
  /\ connectCalled' = connectDone(new, connectCalled)
  /\ connectOk' = (connectOk \/ (new.op = "connect" /\ new.cb.n > 0 /\ new.cb.err = None))
  /\ methods' = [k \in MethodKeys |->
                   SelectSeq(methods[k], LAMBDA e : e.id \notin Range(new.ran))]
  /\ UNCHANGED <<docFilters, opFilters, useError, lastUse, lastOp, thrown>>
  /\ UNCHANGED <<streamVars, queryVars>>

\* The effect of one turn on slot c: the slot's new record, the trigger it
\* may have scheduled, the flag connect's callback may have set.
Turn(c, new, rest) ==
  /\ calls' = [calls EXCEPT ![c] = new]
  /\ ticks' = IF new.pc = "tick" THEN Append(rest, c) ELSE rest
  /\ connectCalled' = connectDone(new, connectCalled)
  /\ connectOk' = (connectOk \/ (new.op = "connect" /\ new.cb.n > 0 /\ new.cb.err = None))
  /\ UNCHANGED <<methods, docFilters, opFilters, useError, lastUse, lastOp, thrown>>
  /\ UNCHANGED <<streamVars, queryVars>>

\* The process.nextTick callback of Middleware.trigger: runMethod copies the
\* lists and starts the chain.
runMethod(c) ==
  /\ ticks # <<>>
  /\ Head(ticks) = c
  /\ LET chain == ChainFor(methods, calls[c].action)
         c0 == [calls[c] EXCEPT !.pc = "run", !.chain = chain, !.nreg = NumRegistered]
         rws == IF chain # <<>> /\ Head(chain).arity = 1
                THEN Rewrites(c0) ELSE {c0.req}
     IN \E rq \in rws :
          Turn(c, next([c0 EXCEPT !.req = rq], connectCalled), Tail(ticks))

\* Mutant: the error is reported and the chain goes on all the same.
advanceNoReturn(call, err, connected) ==
  IF err # None
  THEN next([Triggered(call, err, FALSE, NoReq, connected) EXCEPT !.pc = "run"],
            connected)
  ELSE next(call, connected)

\* The function runMethod hands to a middleware of arity 2: an error goes
\* to the trigger's callback alone and ends the chain, otherwise next().
advance(call, err, connected) ==
  IF err # None
  THEN Triggered(call, err, FALSE, NoReq, connected)
  ELSE next(call, connected)

\* A middleware of arity 2 calls that function. sig and sigAt note the error
\* it signalled and how many middleware had been invoked by then, adv how
\* often the function was called for this trigger.
mwNext(c, err) ==
  /\ calls[c].pc = "mw"
  /\ \E rq \in Rewrites(calls[c]) :
       LET c0 == [calls[c] EXCEPT
                    !.req = rq, !.sig = err, !.adv = @ + 1,
                    !.sigAt = IF err # None THEN Len(calls[c].ran) ELSE 0]
       IN Turn(c, advance(c0, err, connectCalled), ticks)

\* The backend answers. bres and fseen note the answer and the doc filters
\* registered by then.
backendReply(c, err, data) ==
  /\ calls[c].pc = "backend"
  /\ LET c0 == [calls[c] EXCEPT
                  !.bres = [n |-> 1, err |-> err,
                            data |-> IF err # None THEN NullData ELSE data],
                  !.fseen = docFilters]
     IN Turn(c, BackendReplied(c0, err, data, docFilters, opFilters, connectCalled),
             ticks)

\* Mutant: an error does not end the run; the last answer is reported.
eachSeriesNextNoStop(call, filters) ==
  LET kind == filters[call.fpos]
      e == FilterOutcome(kind, FilterDocName(call))
      d == FilterMutate(kind, FilterDocName(call), call.data)
  IN IF call.fpos >= Len(filters)
     THEN FiltersDone(call, runFiltersResult(e, d))
     ELSE [call EXCEPT !.fpos = @ + 1, !.fran = Append(@, call.fpos + 1), !.data = d]

\* async.eachSeries after the filter at fpos answered: the error ends the
\* run, otherwise the next filter of the list is invoked or the run ends.
eachSeriesNext(call, filters) ==
  LET kind == filters[call.fpos]
      e == FilterOutcome(kind, FilterDocName(call))
      d == FilterMutate(kind, FilterDocName(call), call.data)
  IN IF e # None THEN FiltersDone(call, runFiltersResult(e, d))
     ELSE IF call.fpos >= Len(filters)
     THEN FiltersDone(call, runFiltersResult(None, d))
     ELSE [call EXCEPT !.fpos = @ + 1, !.fran = Append(@, call.fpos + 1), !.data = d]

\* The filter invoked last calls its next.
filterDone(c) ==
  /\ calls[c].pc = "filter"
  /\ Turn(c, eachSeriesNext(calls[c], FiltersOf(calls[c], docFilters, opFilters)), ticks)

\* One document's filter run of a fan-out answers with err.
fanOutNext(call, d, err) ==
  LET c1 == [call EXCEPT !.pending = @ \ {d}, !.work = @ - 1]
  IN IF ~call.cbLive THEN c1
     ELSE IF err # None
     THEN [FanOutDone(c1, err, call.data) EXCEPT !.cbLive = FALSE]
     ELSE IF c1.work = 0
     THEN [FanOutDone(c1, None, call.data) EXCEPT !.cbLive = FALSE]
     ELSE c1

fanOutDone(c, d) ==
  /\ d \in calls[c].pending
  /\ Turn(c, fanOutNext(calls[c], d, RunAll(docFilters, d)), ticks)

\* ------------------------------------------------------- public operations
Free(c) == calls[c].pc = "idle"

\* The caller is done with a finished operation: its slot is free again.
forget(c) ==
  /\ calls[c].pc = "done"
  /\ calls[c].pending = {}
  /\ calls' = [calls EXCEPT ![c] = IdleCall]
  /\ UNCHANGED <<connectCalled, methods, docFilters, opFilters, useError, lastUse, ticks,
                 lastOp, thrown, connectOk>>
  /\ UNCHANGED <<streamVars, queryVars>>

\* A public method is called: it runs up to the return of _trigger.
Invoke(op, req) ==
  LET new == UserAgent_trigger([IdleCall EXCEPT !.op = op, !.args = req],
                               ActionOf(op), req, connectCalled)
  IN /\ lastOp' = op
     /\ IF new.pc = "fault"
        THEN /\ thrown' = "UserAgent did not trigger connect"
             /\ UNCHANGED <<calls, ticks>>
        ELSE /\ thrown' = None
             /\ \E c \in Slots :
                  /\ Free(c)
                  /\ \A b \in Slots : Free(b) => c <= b
                  /\ calls' = [calls EXCEPT ![c] = new]
                  /\ ticks' = Append(ticks, c)
     /\ UNCHANGED <<connectCalled, methods, docFilters, opFilters, useError, lastUse, connectOk>>
     /\ UNCHANGED <<streamVars, queryVars>>

DocReq(d) == [NoReq EXCEPT !.collection = "people", !.docName = d]
\* The same with the caller's start and end, version or opData.
PayloadReq(d) == [DocReq(d) EXCEPT !.payload = "caller's"]
BulkReq(r) == [NoReq EXCEPT !.requests = r]
QueryReq ==
  [NoReq EXCEPT !.collection = "people", !.payload = "caller's",
                !.options = "caller's"]

connect == Invoke("connect", NoReq)
fetch(d) == Invoke("fetch", DocReq(d))
bulkFetch(r) == Invoke("bulkFetch", BulkReq(r))
getOps(d) == Invoke("getOps", PayloadReq(d))
subscribe(d) == Invoke("subscribe", PayloadReq(d))
bulkSubscribe(r) == Invoke("bulkSubscribe", BulkReq(r))
fetchAndSubscribe(d) == Invoke("fetchAndSubscribe", DocReq(d))
submit(d) == Invoke("submit", PayloadReq(d))
queryFetch == Invoke("queryFetch", QueryReq)
query == Invoke("query", QueryReq)

\* ----------------------------------------------------------- specification
\* No stream is wrapped.
NoEvent == [n |-> 0, op |-> "none", stamped |-> FALSE]
NoWrapper ==
  [buf |-> <<>>, busy |-> FALSE, ev |-> NoEvent, pos |-> 0, out |-> <<>>,
   destroys |-> 0, fthis |-> None]

\* No live query is open.
NoEmitter == [emitted |-> 0, destroys |-> 0]
NoWrapped == [batches |-> <<>>, destroys |-> 0]

StreamIdle ==
  /\ srcToEmit = <<>>
  /\ srcEmitted = <<>>
  /\ srcDestroys = 0
  /\ wrapper = NoWrapper
  /\ emitter = NoEmitter
  /\ wrapped = NoWrapped

\* A fresh Middleware and a fresh UserAgent.
Init ==
  /\ connectCalled = FALSE
  /\ MiddlewareInit
  /\ calls = [c \in Slots |-> IdleCall]
  /\ ticks = <<>>
  /\ lastOp = "none"
  /\ thrown = None
  /\ connectOk = FALSE
  /\ StreamIdle

Next ==
  \/ \E a \in UseActions, n \in {1, 2} : use(a, n)
  \/ \E k \in DocFilterKinds : filter(k)
  \/ \E k \in OpFilterKinds : filterOps(k)
  \/ connect
  \/ \E d \in DocNames : fetch(d)
  \/ \E r \in RequestMaps : bulkFetch(r)
  \/ \E d \in DocNames : getOps(d)
  \/ \E d \in DocNames : subscribe(d)
  \/ \E r \in RequestMaps : bulkSubscribe(r)
  \/ \E d \in DocNames : fetchAndSubscribe(d)
  \/ \E d \in DocNames : submit(d)
  \/ queryFetch
  \/ query
  \/ \E c \in Slots : runMethod(c)
  \/ \E c \in Slots, e \in MwErrors \cup {None} : mwNext(c, e)
  \/ \E c \in Slots, e \in BackendErrors \cup {None} :
       \E data \in BackendData(calls[c].op) : backendReply(c, e, data)
  \/ \E c \in Slots : filterDone(c)
  \/ \E c \in Slots, d \in DocNames : fanOutDone(c, d)
  \/ \E c \in Slots : forget(c)

Spec == Init /\ [][Next]_vars

\* ---------------------------------------------- specification: filter runs
\* All chains of at most n filters of the given kinds.
RECURSIVE Chains(_, _)
Chains(kinds, n) ==
  IF n = 0 THEN {<<>>}
  ELSE LET shorter == Chains(kinds, n - 1)
       IN shorter \cup {Append(ch, k) : ch \in shorter, k \in kinds}

\* An operation whose trigger ran an empty chain and whose backend call is
\* under way.
AwaitingBackend(op, req) ==
  LET c1 == next([Middleware_trigger([IdleCall EXCEPT !.op = op, !.args = req],
                                     ActionOf(op), req) EXCEPT !.pc = "run"], TRUE)
  IN IF c1.pc = "tick" THEN next([c1 EXCEPT !.pc = "run"], TRUE) ELSE c1

\* A connected agent, a chain of doc filters registered, and a fetch or a
\* fetchAndSubscribe of some document waiting for the backend.
InitFilters ==
  /\ connectCalled = TRUE
  /\ connectOk = TRUE
  /\ methods = [k \in MethodKeys |-> <<>>]
  /\ useError = FALSE
  /\ lastUse = "none"
  /\ docFilters \in Chains({"mario", "pass", "veto"}, MaxChain)
  /\ opFilters = <<>>
  /\ calls \in [Slots -> {AwaitingBackend(op, DocReq(d)) :
                            op \in {"fetch", "fetchAndSubscribe"}, d \in DocNames}]
  /\ ticks = <<>>
  /\ lastOp = calls[1].op
  /\ thrown = None
  /\ StreamIdle

NextFilters ==
  \/ \E c \in Slots, e \in BackendErrors \cup {None} :
       \E data \in BackendData(calls[c].op) : backendReply(c, e, data)
  \/ \E c \in Slots : filterDone(c)

SpecFilters == InitFilters /\ [][NextFilters]_vars

\* ------------------------------------------- specification: wrapped stream
\* The op filters a wrapped stream is run with: one that rejects a batch
\* whose record is a 'cheat', one that marks the record and lets it pass.
StreamFilterKinds == {"cheat", "stamp"}
EventOps == {"edit", "cheat"}

\* What an op filter answers for the one-record batch [ev].
OpFilterOutcome(kind, ev) ==
  IF kind = "veto" \/ (kind = "cheat" /\ ev.op = "cheat")
  THEN "Not on my watch!" ELSE None

\* What it does to the record.
OpFilterMutate(kind, ev) ==
  IF kind = "stamp" THEN [ev EXCEPT !.stamped = TRUE] ELSE ev

\* An entry the wrapper pushed: the record, or {error: err} in its place.
\* of notes the record of the source the entry answers.
Forwarded(ev) == [of |-> ev.n, error |-> None, rec |-> ev]
ErrorMarker(ev, err) == [of |-> ev.n, error |-> err, rec |-> NoEvent]

\* Mutant: a rejected record is dropped instead of being answered.
transformDoneDropsErrors(w, err, ev) ==
  [w EXCEPT !.out = IF err # None THEN @ ELSE Append(@, Forwarded(ev)),
            !.busy = FALSE, !.ev = NoEvent, !.pos = 0]

\* The callback transform() gives runOpFilters: push the record or the
\* error marker, then tell the Transform the chunk is done.
transformDone(w, err, ev) ==
  [w EXCEPT !.out = Append(@, IF err # None THEN ErrorMarker(ev, err)
                                           ELSE Forwarded(ev)),
            !.busy = FALSE, !.ev = NoEvent, !.pos = 0]

\* passthrough._transform: run the op filters on [data]; with no filter
\* async.eachSeries answers at once.
transform(w, ev, filters) ==
  IF filters = <<>>
  THEN transformDone(w, None, ev)
  ELSE [w EXCEPT !.busy = TRUE, !.ev = ev, !.pos = 1, !.fthis = FilterThis]

\* The Transform hands its buffered chunks to _transform, one at a time.
RECURSIVE pump(_, _)
pump(w, filters) ==
  IF ~w.busy /\ w.buf # <<>>
  THEN pump(transform([w EXCEPT !.buf = Tail(@)], Head(w.buf), filters), filters)
  ELSE w

\* async.eachSeries inside _transform after the filter at pos answered.
opFilterNext(w, filters) ==
  LET kind == filters[w.pos]
      e == OpFilterOutcome(kind, w.ev)
      ev == OpFilterMutate(kind, w.ev)
  IN IF e # None THEN transformDone(w, e, w.ev)
     ELSE IF w.pos >= Len(filters) THEN transformDone(w, None, ev)
     ELSE [w EXCEPT !.pos = @ + 1, !.ev = ev]

\* The source emits its next record: stream.pipe(passthrough) writes it to
\* the wrapper.
srcEmit ==
  /\ srcToEmit # <<>>
  /\ srcDestroys = 0
  /\ srcToEmit' = Tail(srcToEmit)
  /\ srcEmitted' = Append(srcEmitted, Head(srcToEmit))
  /\ wrapper' = pump([wrapper EXCEPT !.buf = Append(@, Head(srcToEmit))], opFilters)
  /\ UNCHANGED <<srcDestroys, agentVars, queryVars>>

\* The op filter invoked last for the record in hand calls its next.
opFilterDone ==
  /\ wrapper.busy
  /\ wrapper' = pump(opFilterNext(wrapper, opFilters), opFilters)
  /\ UNCHANGED <<srcToEmit, srcEmitted, srcDestroys, agentVars, queryVars>>

\* passthrough.destroy() is called: destroyPassthrough calls
\* stream.destroy(), whatever was called before.
destroy ==
  /\ wrapper.destroys < MaxDestroy
  /\ srcDestroys' = srcDestroys + 1
  /\ wrapper' = [wrapper EXCEPT !.destroys = @ + 1]
  /\ UNCHANGED <<srcToEmit, srcEmitted, agentVars, queryVars>>

\* The records of a source: numbered in the order it emits them.
RECURSIVE EventSeqs(_)
EventSeqs(n) ==
  IF n = 0 THEN {<<>>}
  ELSE LET shorter == EventSeqs(n - 1)
       IN shorter \cup
          {Append(es, [n |-> Len(es) + 1, op |-> o, stamped |-> FALSE]) :
             es \in {x \in shorter : Len(x) = n - 1}, o \in EventOps}

\* wrapOpStream has wrapped a source, with some op filters registered.
InitStream ==
  /\ connectCalled = TRUE
  /\ connectOk = TRUE
  /\ methods = [k \in MethodKeys |-> <<>>]
  /\ useError = FALSE
  /\ lastUse = "none"
  /\ docFilters = <<>>
  /\ opFilters \in Chains(StreamFilterKinds, MaxChain)
  /\ calls = [c \in Slots |-> IdleCall]
  /\ ticks = <<>>
  /\ lastOp = "subscribe"
  /\ thrown = None
  /\ srcToEmit \in EventSeqs(MaxEvents)
  /\ srcEmitted = <<>>
  /\ srcDestroys = 0
  /\ wrapper = NoWrapper
  /\ emitter = NoEmitter
  /\ wrapped = NoWrapped

NextStream ==
  \/ srcEmit
  \/ opFilterDone
  \/ destroy

SpecStream == InitStream /\ [][NextStream]_vars


\* ----------------------------------- specification: bulk doc-filter runs
\* The documents of a bulk result: collection and name.
BulkDocs == {<<"people", "mario">>, <<"people", "peaches">>, <<"pets", "mario">>}
\* Errors a run of the doc filters on one document may end with.
FilterErrors == {"Document not found!", "Not on my watch!"}

\* Mutant: the consumed callback handle is not looked at.
doneIgnoresConsumed(call) ==
  LET c1 == [call EXCEPT !.work = @ - 1]
  IN IF c1.work = 0 THEN Deliver(c1, None, c1.data) ELSE c1

\* done() of runBulkDocFilters: one unit of work is over; the last one
\* hands the data over if the callback is still there.
done(call) ==
  LET c1 == [call EXCEPT !.work = @ - 1]
  IN IF c1.work = 0 /\ c1.cbLive THEN Deliver(c1, None, c1.data) ELSE c1

\* The callback runBulkDocFilters gives runDocFilters for one document: the
\* first error goes to the callback, which is then dropped; then done().
\* runs notes the runs that have answered, in the order they did.
docFiltersDone(call, d, err) ==
  LET c1 == [call EXCEPT !.pending = @ \ {d},
                         !.runs = Append(@, [doc |-> d, err |-> err])]
      c2 == IF err # None /\ c1.cbLive
            THEN [Deliver(c1, err, NullData) EXCEPT !.cbLive = FALSE]
            ELSE c1
  IN done(c2)

\* The two loops of runBulkDocFilters over the documents in the order the
\* map yields them: work++ and runDocFilters for each. plan says for each
\* document whether its filters answer inside the call (and with what) or
\* in a later turn.
RECURSIVE bulkLoop(_, _, _)
bulkLoop(call, order, plan) ==
  IF order = <<>> THEN call
  ELSE LET d == Head(order)
           c1 == [call EXCEPT !.work = @ + 1, !.pending = @ \cup {d}]
           c2 == IF plan[d] = "later" THEN c1 ELSE docFiltersDone(c1, d, plan[d])
       IN bulkLoop(c2, Tail(order), plan)

\* The orders in which a map may yield its documents.
RECURSIVE Orders(_)
Orders(ds) ==
  IF ds = {} THEN {<<>>}
  ELSE UNION {{<<d>> \o o : o \in Orders(ds \ {d})} : d \in ds}

\* runBulkDocFilters(data, callback), called from bulkFetch's backend
\* callback: work starts at 1, the loops run, and done() releases that unit.
runBulkDocFilters(c, ds) ==
  /\ calls[c].op = "bulkFetch"
  /\ calls[c].pc = "backend"
  /\ \E order \in Orders(ds), plan \in [ds -> {"later", None} \cup FilterErrors] :
       LET c0 == [calls[c] EXCEPT !.pc = "bulk", !.data = DocSet("map", ds),
                                  !.work = 1, !.cbLive = TRUE]
       IN Turn(c, done(bulkLoop(c0, order, plan)), ticks)

\* The doc filters of one document answer in a later turn.
docFiltersAnswer(c, d, err) ==
  /\ d \in calls[c].pending
  /\ Turn(c, docFiltersDone(calls[c], d, err), ticks)

\* A connected agent whose bulkFetch waits for the backend.
InitBulk ==
  /\ connectCalled = TRUE
  /\ connectOk = TRUE
  /\ MiddlewareInit
  /\ calls \in [Slots -> {AwaitingBackend("bulkFetch", BulkReq(r)) :
                            r \in {x \in RequestMaps : ~bulkFetchRequestsEmpty(x)}}]
  /\ ticks = <<>>
  /\ lastOp = "bulkFetch"
  /\ thrown = None
  /\ StreamIdle

NextBulk ==
  \/ \E c \in Slots, ds \in SUBSET BulkDocs : runBulkDocFilters(c, ds)
  \/ \E c \in Slots, d \in BulkDocs, e \in FilterErrors \cup {None} :
       docFiltersAnswer(c, d, e)

SpecBulk == InitBulk /\ [][NextBulk]_vars


\* --------------------------------------- specification: concurrent chains
\* A connected agent that has called two operations in one turn: both
\* triggers are scheduled, neither chain has started, and middleware is
\* registered while they run.
InitChains ==
  /\ connectCalled = TRUE
  /\ connectOk = TRUE
  /\ MiddlewareInit
  /\ calls \in [1..MaxConcurrent ->
                  {Middleware_trigger([IdleCall EXCEPT !.op = "submit",
                                                      !.args = PayloadReq("mario")],
                                      "submit", PayloadReq("mario")),
                   Middleware_trigger([IdleCall EXCEPT !.op = "bulkSubscribe",
                                                      !.args = BulkReq({})],
                                      "bulk subscribe", BulkReq({}))}]
  /\ ticks = [i \in 1..MaxConcurrent |-> i]
  /\ lastOp = calls[MaxConcurrent].op
  /\ thrown = None
  /\ StreamIdle

NextChains ==
  \/ \E a \in UseActions, n \in {1, 2} : use(a, n)
  \/ \E c \in 1..MaxConcurrent : runMethod(c)
  \/ \E c \in 1..MaxConcurrent, e \in MwErrors \cup {None} : mwNext(c, e)

SpecChains == InitChains /\ [][NextChains]_vars


\* ------------------------------------------- specification: live query
\* The items of a 'diff' event: inserts with the documents they bring, and
\* an item of another type that names a document.
DiffItems ==
  {[type |-> "insert", values |-> vs] : vs \in SUBSET DocNames}
  \cup {[type |-> "remove", values |-> {"peaches"}]}

\* A 'diff' event the handler of query() has taken up. pending are the
\* documents (item, name) whose doc filters have not answered; resultsLive,
\* resultsDone, diffsLive and diffsDone are the callback handle and the
\* counter of async.each in filterQueryResults (one per item) and in the
\* handler; emitted is what the wrapped emitter has emitted for the event.
\* filtered and failed note the documents handed to the doc filters and the
\* first error a run answered with.
NewBatch(diffs) ==
  [diffs |-> diffs, pending |-> {}, filtered |-> {},
   resultsLive |-> [i \in 1..Len(diffs) |-> TRUE],
   resultsDone |-> [i \in 1..Len(diffs) |-> 0],
   diffsLive |-> TRUE, diffsDone |-> 0,
   emitted |-> <<>>, failed |-> None]

\* Mutant: the batch is emitted after the error as well.
diffDoneEmitsDiffToo(b, error) ==
  [b EXCEPT
     !.emitted = IF error # None
                 THEN @ \o <<[event |-> "error", error |-> error, diffs |-> <<>>],
                             [event |-> "diff", error |-> None, diffs |-> b.diffs]>>
                 ELSE Append(@, [event |-> "diff", error |-> None, diffs |-> b.diffs])]

\* The final callback of async.each in the 'diff' handler: 'error' with the
\* error, or 'diff' with the batch.
diffDone(b, error) ==
  [b EXCEPT
     !.emitted = Append(@, IF error # None
                           THEN [event |-> "error", error |-> error, diffs |-> <<>>]
                           ELSE [event |-> "diff", error |-> None, diffs |-> b.diffs])]

\* async.each in the 'diff' handler, when the iterator's next is called
\* for one item: the first error goes to the final callback, which is then
\* dropped; otherwise the item counts and the last one calls it.
eachDiffDone(b, err) ==
  IF err # None
  THEN IF b.diffsLive THEN diffDone([b EXCEPT !.diffsLive = FALSE], err) ELSE b
  ELSE LET b1 == [b EXCEPT !.diffsDone = @ + 1]
       IN IF b1.diffsDone >= Len(b.diffs) /\ b1.diffsLive
          THEN diffDone(b1, None) ELSE b1

\* async.each in filterQueryResults for item i, when runDocFilters calls
\* innerCb for one document; its final callback hands the error to next.
eachResultDone(b, i, err) ==
  IF err # None
  THEN IF b.resultsLive[i]
       THEN eachDiffDone([b EXCEPT !.resultsLive[i] = FALSE], err) ELSE b
  ELSE LET b1 == [b EXCEPT !.resultsDone[i] = @ + 1]
       IN IF b1.resultsDone[i] >= Cardinality(b.diffs[i].values) /\ b1.resultsLive[i]
          THEN eachDiffDone(b1, None) ELSE b1

\* The doc filters of one document of item i answer.
resultFiltered(b, i, d, err) ==
  eachResultDone([b EXCEPT !.pending = @ \ {<<i, d>>},
                           !.failed = IF @ = None THEN err ELSE @],
                 i, err)

\* filterQueryResults(collection, values, next) for item i: runDocFilters
\* is started for every document; with no filter registered each run
\* answers at once, and with no document async.each calls back at once.
RECURSIVE filterDiffValues(_, _, _, _)
filterDiffValues(b, i, ds, filters) ==
  IF ds = {} THEN b
  ELSE LET d == CHOOSE x \in ds : TRUE
           b1 == [b EXCEPT !.filtered = @ \cup {<<i, d>>},
                           !.pending = @ \cup {<<i, d>>}]
           b2 == IF filters = <<>> THEN resultFiltered(b1, i, d, None) ELSE b1
       IN filterDiffValues(b2, i, ds \ {d}, filters)

\* The iterator of the handler's async.each for items i..: an insert has
\* its values filtered, any other item calls next() at once.
RECURSIVE eachDiff(_, _, _)
eachDiff(b, i, filters) ==
  IF i > Len(b.diffs) THEN b
  ELSE LET item == b.diffs[i]
           b1 == IF item.type = "insert"
                 THEN IF item.values = {}
                      THEN eachDiffDone(b, None)
                      ELSE filterDiffValues(b, i, item.values, filters)
                 ELSE eachDiffDone(b, None)
       IN eachDiff(b1, i + 1, filters)

\* The handler query() puts on the emitter's 'diff': async.each over the
\* items, which calls back at once for an empty batch.
onDiff(diffs, filters) ==
  IF diffs = <<>> THEN diffDone(NewBatch(diffs), None)
  ELSE eachDiff(NewBatch(diffs), 1, filters)

\* The backend's emitter emits 'diff'.
emitDiff(diffs) ==
  /\ emitter.emitted < MaxBatches
  /\ emitter.destroys = 0
  /\ emitter' = [emitter EXCEPT !.emitted = @ + 1]
  /\ wrapped' = [wrapped EXCEPT !.batches = Append(@, onDiff(diffs, docFilters))]
  /\ UNCHANGED <<agentVars, streamVars>>

\* The doc filters answer for a document of an event taken up earlier.
queryFilterAnswer(k, i, d) ==
  /\ k \in 1..Len(wrapped.batches)
  /\ <<i, d>> \in wrapped.batches[k].pending
  /\ wrapped' = [wrapped EXCEPT
                   !.batches[k] = resultFiltered(@, i, d, RunAll(docFilters, d))]
  /\ UNCHANGED <<emitter, agentVars, streamVars>>

\* wrapped.destroy(): emitter.destroy().
wrapped_destroy ==
  /\ wrapped.destroys < MaxDestroy
  /\ wrapped' = [wrapped EXCEPT !.destroys = @ + 1]
  /\ emitter' = [emitter EXCEPT !.destroys = @ + 1]
  /\ UNCHANGED <<agentVars, streamVars>>

\* query() has handed the wrapped emitter to its caller, with some doc
\* filters registered.
InitQuery ==
  /\ connectCalled = TRUE
  /\ connectOk = TRUE
  /\ methods = [k \in MethodKeys |-> <<>>]
  /\ useError = FALSE
  /\ lastUse = "none"
  /\ docFilters \in Chains({"mario", "veto"}, MaxDocFilters)
  /\ opFilters = <<>>
  /\ calls = [c \in Slots |-> IdleCall]
  /\ ticks = <<>>
  /\ lastOp = "query"
  /\ thrown = None
  /\ StreamIdle

NextQuery ==
  \/ \E diffs \in Chains(DiffItems, MaxDiffs) : emitDiff(diffs)
  \/ \E k \in 1..MaxBatches, i \in 1..MaxDiffs, d \in DocNames :
       queryFilterAnswer(k, i, d)
  \/ wrapped_destroy

SpecQuery == InitQuery /\ [][NextQuery]_vars


\* ------------------------------------------------------------------ claims
IsPrefix(a, b) == Len(a) <= Len(b) /\ \A i \in 1..Len(a) : a[i] = b[i]

\* The registration numbers of a set of entries, in registration order.
RECURSIVE InOrder(_)
InOrder(ids) ==
  IF ids = {} THEN <<>>
  ELSE LET m == CHOOSE x \in ids : \A y \in ids : x <= y
       IN <<m>> \o InOrder(ids \ {m})

\* The entries registered under a key before n registrations had been made.
RegisteredUnder(key, n) ==
  IF key \in MethodKeys
  THEN {e.id : e \in {x \in Range(methods[key]) : x.id <= n}}
  ELSE {}

\* C1: before a connect trigger has completed without error, every public
\* call other than connect throws the usage fault, and no operation other
\* than connect is scheduled, runs middleware or reaches the backend.
C1_UsageFaultBeforeConnect ==
  ~connectOk =>
    /\ lastOp \notin {"none", "connect"} => thrown # None
    /\ \A c \in Slots :
         calls[c].pc # "idle" => calls[c].op = "connect" /\ calls[c].bcalls = 0
    /\ \A i \in 1..Len(ticks) : calls[ticks[i]].op = "connect"

\* A submit thrown out while connect waits for a middleware.
C1_Witness ==
  /\ ~connectOk
  /\ lastOp = "submit"
  /\ thrown # None
  /\ \E c \in Slots : calls[c].op = "connect" /\ calls[c].pc = "mw"

\* C2: when a middleware of an operation's pre-backend trigger signals an
\* error, the caller gets exactly that error, once, with no data, and the
\* backend is not invoked for the call.
C2_MiddlewareVeto ==
  \A c \in Slots :
    LET call == calls[c]
    IN (/\ call.sig # None
        /\ call.op # "connect"
        /\ ~(call.op = "submit" /\ call.stage = 2)) =>
         /\ call.pc = "done"
         /\ call.result = [n |-> 1, err |-> call.sig, data |-> NullData]
         /\ call.bcalls = 0

\* fetchAndSubscribe vetoed in its second trigger.
C2_Witness ==
  \E c \in Slots :
    /\ calls[c].op = "fetchAndSubscribe"
    /\ calls[c].stage = 2
    /\ calls[c].sig = "forbidden"
    /\ calls[c].result.err = "forbidden"

\* C3: the first middleware that signals an error ends the chain: nothing
\* is invoked after it and the trigger's callback gets the error alone; a
\* chain that ends without error hands (null, backend, request) over.
C3_FirstErrorStopsChain ==
  \A c \in Slots :
    LET call == calls[c]
    IN /\ call.sig # None =>
            /\ Len(call.ran) = call.sigAt
            /\ call.cb = [n |-> 1, err |-> call.sig, backend |-> FALSE, req |-> NoReq]
       /\ (call.cb.n > 0 /\ call.sig = None) =>
            call.cb = [n |-> 1, err |-> None, backend |-> TRUE, req |-> call.req]

\* An error signalled by the first of two middleware: the second is left.
C3_Witness ==
  \E c \in Slots :
    /\ calls[c].sig # None
    /\ Len(calls[c].ran) = 1
    /\ Len(calls[c].chain) = 1

\* C4: the middleware invoked for a trigger of action A are a prefix of
\* those registered for A, in registration order, followed by those
\* registered for all actions, in registration order; a chain that ends
\* without error has invoked them all.
C4_SpecificBeforeGlobal ==
  \A c \in Slots :
    LET call == calls[c]
        expected == InOrder(RegisteredUnder(call.action, call.nreg))
                      \o InOrder(RegisteredUnder("", call.nreg))
    IN call.pc # "idle" =>
         /\ IsPrefix(call.ran, expected)
         /\ (call.cb.n > 0 /\ call.cb.err = None) => call.ran = expected

\* A submit whose own middleware, registered second, ran before the
\* all-actions middleware registered first.
C4_Witness ==
  \E c \in Slots : calls[c].action = "submit" /\ calls[c].ran = <<2, 1>>

\* C5: the turn that calls trigger runs no middleware and delivers no
\* callback: it leaves the chain scheduled for a later turn.
C5_TriggerIsAsync ==
  [][\A c \in Slots :
       calls'[c].stage > calls[c].stage =>
         /\ calls'[c].pc = "tick"
         /\ calls'[c].ran = <<>>
         /\ calls'[c].cb.n = 0
         /\ \E i \in 1..Len(ticks') : ticks'[i] = c]_vars

\* connect has returned with no middleware registered: its callback waits.
C5_Witness ==
  \E c \in Slots :
    /\ calls[c].op = "connect"
    /\ calls[c].pc = "tick"
    /\ NumRegistered = 0
    /\ calls[c].result.n = 0

Mario == [Snapshot EXCEPT !.greeting = "It'se me: Mario"]

\* A fetch the backend answered without error while the filter of the doc
\* comment was registered.
FetchAnswered(call) ==
  /\ call.op = "fetch"
  /\ call.bres.n = 1
  /\ call.bres.err = None
  /\ "mario" \in Range(call.fseen)

\* C7 as stated: whatever the backend returned, snapshot or nil, the fetch
\* ends with the filter's verdict.
C7_FetchAlwaysFiltered ==
  \A c \in Slots :
    (FetchAnswered(calls[c]) /\ calls[c].pc = "done") =>
      IF calls[c].req.docName = "mario"
      THEN calls[c].result = [n |-> 1, err |-> None, data |-> Mario]
      ELSE calls[c].result = [n |-> 1, err |-> "Document not found!", data |-> NullData]

\* C7 amended: a snapshot goes through the doc filters before it is
\* delivered; nil is delivered as it is, without any filter being run.
C7_FetchFiltersSnapshots ==
  \A c \in Slots :
    LET call == calls[c]
    IN FetchAnswered(call) =>
         IF call.bres.data.kind = "null"
         THEN /\ call.pc = "done"
              /\ call.fran = <<>>
              /\ call.result = [n |-> 1, err |-> None, data |-> NullData]
         ELSE /\ call.pc \in {"filter", "done"}
              /\ call.pc = "filter" => call.result.n = 0
              /\ call.pc = "done" =>
                   IF call.req.docName = "mario"
                   THEN call.result = [n |-> 1, err |-> None, data |-> Mario]
                   ELSE call.result =
                          [n |-> 1, err |-> "Document not found!", data |-> NullData]

\* A snapshot of peaches turned down by the filter.
C7_Witness ==
  \E c \in Slots :
    /\ FetchAnswered(calls[c])
    /\ calls[c].bres.data.kind = "snapshot"
    /\ calls[c].req.docName = "peaches"
    /\ calls[c].result.err = "Document not found!"

\* C10: once the 'bulk fetch' chain has ended without error, a request map
\* with only empty lists ends the call with (null, {}) and no backend call;
\* any other map is handed to the backend's bulkFetch exactly once.
C10_BulkFetchEmpty ==
  \A c \in Slots :
    LET call == calls[c]
    IN (call.op = "bulkFetch" /\ call.cb.n > 0 /\ call.cb.err = None) =>
         IF \A r \in call.cb.req.requests : r.docs = <<>>
         THEN /\ call.pc = "done"
              /\ call.result = [n |-> 1, err |-> None, data |-> EmptyMap]
              /\ call.bcalls = 0
         ELSE /\ call.bcalls = 1
              /\ call.bargs.requests = call.cb.req.requests

\* A map the caller filled and a middleware emptied: no backend call.
C10_Witness ==
  \E c \in Slots :
    /\ calls[c].op = "bulkFetch"
    /\ calls[c].args.requests = {[cName |-> "people", docs |-> <<"mario">>]}
    /\ calls[c].cb.req.requests = {[cName |-> "people", docs |-> <<>>]}
    /\ calls[c].pc = "done"
    /\ calls[c].bcalls = 0
    /\ calls[c].result.err = None


\* The first filter of a chain that signals an error for a document, or 0.
FirstFailure(filters, d) ==
  IF \E i \in 1..Len(filters) : FilterOutcome(filters[i], d) # None
  THEN CHOOSE i \in 1..Len(filters) :
         /\ FilterOutcome(filters[i], d) # None
         /\ \A j \in 1..(i - 1) : FilterOutcome(filters[j], d) = None
  ELSE 0

\* C6: one run of a filter chain invokes the filters one at a time in
\* registration order, each after its predecessor signalled success; the
\* first error ends the run with (error, no data) and no later filter is
\* invoked; with no error the callback gets (no error, data).
C6_FilterChainSequential ==
  \A c \in Slots :
    LET call == calls[c]
        d == call.req.docName
        k == FirstFailure(docFilters, d)
    IN (call.bres.n = 1 /\ call.bres.err = None /\ call.bres.data.kind # "null") =>
         /\ call.fran = [i \in 1..Len(call.fran) |-> i]
         /\ call.pc = "filter" =>
              /\ call.fpos = Len(call.fran)
              /\ call.result.n = 0
              /\ \A i \in 1..(call.fpos - 1) : FilterOutcome(docFilters[i], d) = None
         /\ call.pc = "done" =>
              IF k # 0
              THEN /\ Len(call.fran) = k
                   /\ call.result =
                        [n |-> 1, err |-> FilterOutcome(docFilters[k], d),
                         data |-> NullData]
              ELSE /\ Len(call.fran) = Len(docFilters)
                   /\ call.result.n = 1
                   /\ call.result.err = None
                   /\ call.result.data.kind # "null"
                   /\ call.result.data.greeting =
                        IF d = "mario" /\ "mario" \in Range(docFilters)
                        THEN "It'se me: Mario" ELSE ""

\* The second of three filters failed: the third was never invoked.
C6_Witness ==
  \E c \in Slots :
    /\ Len(docFilters) = 3
    /\ calls[c].pc = "done"
    /\ calls[c].fran = <<1, 2>>
    /\ calls[c].result.err = "Not on my watch!"


\* What the op filters make of a record: the error of the first filter
\* that rejects it, or the record as the filters before left it.
RECURSIVE Filtered(_, _)
Filtered(filters, ev) ==
  IF filters = <<>> THEN Forwarded(ev)
  ELSE IF OpFilterOutcome(Head(filters), ev) # None
  THEN ErrorMarker(ev, OpFilterOutcome(Head(filters), ev))
  ELSE Filtered(Tail(filters), OpFilterMutate(Head(filters), ev))

\* C8: a wrapped stream that is not destroyed answers the records of its
\* source one for one and in order, each with the filtered record or with
\* an error marker; a rejected record holds nothing up, and once nothing is
\* in hand every record emitted has been answered.
C8_StreamOneToOne ==
  wrapper.destroys = 0 =>
    /\ Len(wrapper.out) + Len(wrapper.buf) + (IF wrapper.busy THEN 1 ELSE 0)
         = Len(srcEmitted)
    /\ \A i \in 1..Len(wrapper.out) :
         /\ wrapper.out[i].of = i
         /\ wrapper.out[i].error # None <=> wrapper.out[i].rec = NoEvent
         /\ wrapper.out[i] = Filtered(opFilters, [srcEmitted[i] EXCEPT !.stamped = FALSE])
    /\ wrapper.busy => wrapper.ev.n = Len(wrapper.out) + 1
    /\ \A j \in 1..Len(wrapper.buf) :
         wrapper.buf[j] = srcEmitted[Len(srcEmitted) - Len(wrapper.buf) + j]

\* Three records answered, the second with an error marker, the third,
\* emitted after it, with the record.
C8_Witness ==
  /\ wrapper.destroys = 0
  /\ Len(wrapper.out) = 3
  /\ wrapper.out[2].error = "Not on my watch!"
  /\ wrapper.out[3].error = None
  /\ wrapper.out[3].rec.stamped

\* C9 as stated: however often destroy() is called on the wrapper, the
\* source's destroy is invoked once.
C9_SourceDestroyedOnce ==
  wrapper.destroys >= 1 => srcDestroys = 1

\* The runs of a bulk fan-out that have answered with an error.
FailedRuns(call) == {i \in 1..Len(call.runs) : call.runs[i].err # None}

\* C11: runBulkDocFilters invokes its callback at most once, and exactly
\* once when all is over: with the error of the first run that failed,
\* whatever the runs after it answer, otherwise with the data and only
\* after every run has answered without error (at once for an empty map).
C11_BulkCallbackOnce ==
  \A c \in Slots :
    LET call == calls[c]
        failed == FailedRuns(call)
    IN (call.op = "bulkFetch" /\ call.data.kind = "map") =>
         /\ call.result.n <= 1
         /\ Len(call.runs) + Cardinality(call.pending) = Cardinality(call.data.docs)
         /\ failed # {} =>
              call.result =
                [n |-> 1,
                 err |-> call.runs[CHOOSE i \in failed : \A j \in failed : i <= j].err,
                 data |-> NullData]
         /\ (failed = {} /\ call.pending = {}) =>
              call.result = [n |-> 1, err |-> None, data |-> call.data]
         /\ (failed = {} /\ call.pending # {}) => call.result.n = 0

\* Three runs: the first succeeded, the second failed, the third failed
\* later with another error; the caller got the second's error, once.
C11_Witness ==
  \E c \in Slots :
    /\ Len(calls[c].runs) = 3
    /\ calls[c].runs[1].err = None
    /\ calls[c].runs[2].err = "Document not found!"
    /\ calls[c].runs[3].err = "Not on my watch!"
    /\ calls[c].result = [n |-> 1, err |-> "Document not found!", data |-> NullData]


\* C12 as stated: what the backend is handed, and the docName the filter
\* pass after it is run with, are those of the request as the middleware
\* chain left it.
C12_BackendReadsRequest ==
  \A c \in Slots :
    LET call == calls[c]
    IN (call.bcalls >= 1 /\ ~(call.op = "submit" /\ call.stage = 2)) =>
         /\ call.bargs = call.cb.req
         /\ call.fdoc # None => call.fdoc = call.cb.req.docName


\* The callback of a connect trigger is invoked in this step.
ConnectCompletes(c) ==
  /\ calls'[c].op = "connect"
  /\ calls[c].cb.n = 0
  /\ calls'[c].cb.n = 1

\* C13: the connected flag starts false, is set exactly by a connect
\* trigger that completes without error, is left as it is by one that
\* reports an error, and is never reset.
C13_ConnectedMonotonic ==
  /\ ~connectCalled
  /\ [][/\ connectCalled => connectCalled'
        /\ (~connectCalled /\ connectCalled') =>
             \E c \in Slots : ConnectCompletes(c) /\ calls'[c].cb.err = None
        /\ \A c \in Slots :
             ConnectCompletes(c) =>
               IF calls'[c].cb.err = None THEN connectCalled'
               ELSE connectCalled' = connectCalled]_vars

\* A connect turned down by a middleware after the agent was connected:
\* the flag is still set.
C13_Witness ==
  /\ connectCalled
  /\ \E c \in Slots :
       /\ calls[c].op = "connect"
       /\ calls[c].pc = "done"
       /\ calls[c].result.err \in MwErrors


\* C14 as stated: submit triggers 'after submit' once, after the backend's
\* submit has succeeded and never otherwise, with the operation submitted
\* and the snapshot the backend returned; an error of that trigger reaches
\* the caller alone, without the version and the ops.
C14_AfterSubmitErrorAlone ==
  \A c \in Slots :
    LET call == calls[c]
    IN call.op = "submit" =>
         /\ call.stage = 2 <=> (call.bres.n = 1 /\ call.bres.err = None)
         /\ call.stage = 2 =>
              /\ call.trail = <<"submit", "backend", "after submit">>
              /\ call.pc = "tick" =>
                   call.req = [call.bargs EXCEPT !.snapshot = "backend's"]
         /\ (call.stage = 2 /\ call.sig # None) =>
              call.result = [n |-> 1, err |-> call.sig, data |-> NullData]

\* What holds of it: when and with what 'after submit' is triggered.
AfterSubmitOnce ==
  \A c \in Slots :
    LET call == calls[c]
    IN call.op = "submit" =>
         /\ call.stage = 2 <=> (call.bres.n = 1 /\ call.bres.err = None)
         /\ call.stage = 2 =>
              /\ call.trail = <<"submit", "backend", "after submit">>
              /\ call.pc = "tick" =>
                   call.req = [call.bargs EXCEPT !.snapshot = "backend's"]


\* C15: use() for 'fetch' or 'subscribe' throws and leaves every list as it
\* was; use() for any other action, or for all actions, returns and appends
\* one entry at the end of the list of that action, the other lists being
\* left as they were.
C15_UseRejectsSingleDoc ==
  /\ lastUse = "none" /\ ~useError
  /\ [][/\ useError' <=> lastUse' \in {"fetch", "subscribe"}
        /\ (lastUse' \in {"fetch", "subscribe"} \/ useError') => methods' = methods
        /\ methods' # methods =>
             /\ lastUse' \in MethodKeys
             /\ Len(methods'[lastUse']) = Len(methods[lastUse']) + 1
             /\ SubSeq(methods'[lastUse'], 1, Len(methods[lastUse'])) = methods[lastUse']
             /\ \A k \in MethodKeys \ {lastUse'} : methods'[k] = methods[k]
        /\ (lastUse' # lastUse /\ lastUse' \in MethodKeys) => methods' # methods]_vars

\* use('subscribe', f) has thrown with one middleware registered for all
\* actions, which is still the only one.
C15_Witness ==
  /\ useError
  /\ lastUse = "subscribe"
  /\ NumRegistered = 1
  /\ Len(methods[""]) = 1


\* The steps of fetchAndSubscribe, in order.
FetchAndSubscribeSteps == <<"fetch", "subscribe", "backend", "filters", "wrap">>

\* C16: fetchAndSubscribe triggers 'fetch', then, if that succeeded,
\* 'subscribe', then calls the backend's fetchAndSubscribe, then runs the
\* doc filters on the snapshot, then wraps the stream; an error of either
\* trigger, of the backend or of a filter goes to the caller and ends the
\* operation: no backend call after a veto, no wrapped stream after a
\* filter's error.
C16_FetchAndSubscribeOrder ==
  \A c \in Slots :
    LET call == calls[c]
        n == Len(call.trail)
        failed == call.pc = "done" /\ call.result.err # None
    IN call.op = "fetchAndSubscribe" =>
         /\ IsPrefix(call.trail, FetchAndSubscribeSteps)
         /\ call.result.n <= 1
         /\ n >= 2 => call.cbs[1] = None
         /\ n >= 3 => call.cbs = <<None, None>> /\ call.bcalls = 1
         /\ n < 3 => call.bcalls = 0
         /\ n >= 4 => call.bres.n = 1 /\ call.bres.err = None
         /\ n = 5 <=> (call.result.n = 1 /\ call.result.err = None)
         /\ n = 5 => call.result.data.kind = "snapshot+stream"
         /\ failed => call.result.data = NullData
         /\ (failed /\ n <= 2) => call.result.err = call.cbs[n] /\ call.sig = call.cbs[n]
         /\ (failed /\ n = 3) => call.result.err = call.bres.err
         /\ (failed /\ n = 4) =>
              call.result.err = FilterOutcome(docFilters[call.fpos], call.cb.req.docName)
         /\ (call.cbs # <<>> /\ call.cbs[Len(call.cbs)] # None) => failed /\ n = Len(call.cbs)
         /\ (call.bres.n = 1 /\ call.bres.err # None) => failed /\ n = 3

\* The doc filter turned the snapshot down: the caller has the filter's
\* error after two triggers and the backend call, and no stream.
C16_Witness ==
  \E c \in Slots :
    /\ calls[c].op = "fetchAndSubscribe"
    /\ calls[c].trail = <<"fetch", "subscribe", "backend", "filters">>
    /\ calls[c].pc = "done"
    /\ calls[c].result = [n |-> 1, err |-> "Document not found!", data |-> NullData]


\* C17 as stated: a doc filter or an op filter, whichever operation or
\* wrapped stream it is invoked for, finds the agent of that operation as
\* its this.
C17_FilterThisIsAgent ==
  /\ \A c \in Slots : calls[c].fthis \in {None, "the UserAgent"}
  /\ wrapper.fthis \in {None, "the UserAgent"}


\* The registration numbers of a list of entries.
Ids(entries) == [i \in 1..Len(entries) |-> entries[i].id]

\* C18: a turn of a trigger leaves the registered lists as they are; the
\* chain of a trigger is the lists as they were when its runMethod started
\* (what is registered later is not invoked for it), and each of several
\* triggers in flight runs its own chain in full.
C18_ChainIsSnapshot ==
  /\ [](\A c \in DOMAIN calls :
          LET call == calls[c]
              expected == InOrder(RegisteredUnder(call.action, call.nreg))
                            \o InOrder(RegisteredUnder("", call.nreg))
          IN call.pc \notin {"idle", "tick"} =>
               /\ call.nreg <= NumRegistered
               /\ IsPrefix(call.ran, expected)
               /\ call.sig = None => call.ran \o Ids(call.chain) = expected
               /\ (call.cb.n > 0 /\ call.cb.err = None) => call.ran = expected)
  /\ [][(\E c \in DOMAIN calls : calls'[c] # calls[c]) =>
          /\ methods' = methods
          /\ docFilters' = docFilters
          /\ opFilters' = opFilters]_vars

\* Two submits in flight together: the chain of the first started with one
\* middleware registered, a second was registered while the first waited,
\* and the chain of the second ran both.
C18_Witness ==
  /\ DOMAIN calls = 1..2
  /\ calls[1].action = "submit" /\ calls[2].action = "submit"
  /\ calls[1].cb.n = 1 /\ calls[1].cb.err = None
  /\ calls[2].cb.n = 1 /\ calls[2].cb.err = None
  /\ calls[1].ran = <<1>>
  /\ calls[2].ran = <<1, 2>>


\* C19 as stated: once destroy() has been called on the wrapper, nothing
\* more is pushed to its consumer, whatever the source had emitted before.
C19_NothingForwardedAfterDestroy ==
  [][wrapper.destroys >= 1 => wrapper'.out = wrapper.out]_vars


\* The arity of the middleware registered with a number.
ArityOf(id) ==
  LET e == CHOOSE x \in UNION {Range(methods[k]) : k \in MethodKeys} : x.id = id
  IN e.arity

\* The middleware invoked for a trigger that take a callback.
Waited(call) == {i \in 1..Len(call.ran) : ArityOf(call.ran[i]) = 2}

\* C20: the callback of a trigger is invoked at most once, and exactly
\* once when the chain is over: with the error a middleware signalled and
\* nothing else, or with (no error, backend, request). While a middleware
\* that takes a callback has not called it, the trigger's callback has not
\* been invoked and no middleware after that one has run.
C20_TriggerCallbackOnce ==
  \A c \in Slots :
    LET call == calls[c]
    IN call.pc # "idle" =>
         /\ call.cb.n <= 1
         /\ call.pc = "tick" => call.cb.n = 0 /\ call.ran = <<>>
         /\ call.pc = "mw" =>
              /\ call.cb.n = 0
              /\ call.ran # <<>>
              /\ ArityOf(call.ran[Len(call.ran)]) = 2
              /\ Cardinality(Waited(call)) = call.adv + 1
         /\ call.pc \notin {"tick", "mw"} =>
              /\ call.cb.n = 1
              /\ Cardinality(Waited(call)) = call.adv
         /\ call.cb.n = 1 =>
              \/ /\ call.cb.err # None
                 /\ call.cb.err = call.sig
                 /\ ~call.cb.backend
                 /\ call.cb.req = NoReq
              \/ /\ call.cb.err = None
                 /\ call.sig = None
                 /\ call.cb.backend
                 /\ call.cb.req = call.req

\* A submit whose first middleware has not called its callback: the second
\* has not run and the submit has gone nowhere.
C20_Witness ==
  \E c \in Slots :
    /\ calls[c].op = "submit"
    /\ calls[c].pc = "mw"
    /\ Len(calls[c].ran) = 1
    /\ Len(calls[c].chain) = 1
    /\ calls[c].cb.n = 0
    /\ calls[c].bcalls = 0


\* The documents the inserts of a batch bring: (item, name).
Inserted(b) ==
  {<<i, d>> : i \in {j \in 1..Len(b.diffs) : b.diffs[j].type = "insert"},
              d \in DocNames} \cap
  UNION {{<<i, d>> : d \in b.diffs[i].values} : i \in 1..Len(b.diffs)}

\* C21: for each 'diff' event of the backend's emitter the wrapped emitter
\* emits at most one event, and exactly one once every filter run has
\* answered: the documents of the inserts, and no others, are handed to the
\* doc filters; 'diff' with the batch is emitted only when all those runs
\* have answered without error, otherwise 'error' with the first error a
\* run answered with, and no 'diff'. destroy() on the wrapped emitter
\* calls destroy() on the backend's emitter.
C21_DiffEventAnsweredOnce ==
  /\ Len(wrapped.batches) = emitter.emitted
  /\ wrapped.destroys >= 1 => emitter.destroys >= 1
  /\ \A k \in 1..Len(wrapped.batches) :
       LET b == wrapped.batches[k]
       IN /\ b.filtered = Inserted(b)
          /\ b.pending \subseteq b.filtered
          /\ Len(b.emitted) <= 1
          /\ b.failed # None =>
               b.emitted = <<[event |-> "error", error |-> b.failed, diffs |-> <<>>]>>
          /\ (b.failed = None /\ b.pending = {}) =>
               /\ b.emitted = <<[event |-> "diff", error |-> None, diffs |-> b.diffs]>>
               /\ \A x \in b.filtered : RunAll(docFilters, x[2]) = None
          /\ (b.failed = None /\ b.pending # {}) => b.emitted = <<>>

\* A batch of an insert bringing mario and peaches and a removal of
\* peaches, under the filter that only lets mario through: both runs have
\* answered and 'error' was emitted once; the batch after it, which brings
\* mario alone, was emitted as 'diff'.
C21_Witness ==
  /\ docFilters = <<"mario">>
  /\ Len(wrapped.batches) = 2
  /\ wrapped.batches[1].diffs =
       <<[type |-> "insert", values |-> {"mario", "peaches"}],
         [type |-> "remove", values |-> {"peaches"}]>>
  /\ wrapped.batches[1].pending = {}
  /\ wrapped.batches[1].emitted =
       <<[event |-> "error", error |-> "Document not found!", diffs |-> <<>>]>>
  /\ wrapped.batches[2].diffs = <<[type |-> "insert", values |-> {"mario"}]>>
  /\ wrapped.batches[2].emitted =
       <<[event |-> "diff", error |-> None, diffs |-> wrapped.batches[2].diffs]>>


=============================================================================
